---------------------------- MODULE Spec2Model ----------------------------
(***************************************************************************)
(* A model of anyufly/file-migrator: the version namer and file emitter of *)
(* migrator.go (nextSeqVersion, timeVersion, upAndDownFilePath,            *)
(* MakeMigrate) and the command surface of command.go (the Run handlers of *)
(* create/goto/up/down/drop/force/version and the SIGINT listener started  *)
(* by setupMigrator).                                                      *)
(*                                                                         *)
(* Go strings are sequences of one-character strings, so that indexing,    *)
(* globbing, parsing and formatting are computed character by character.   *)
(* uint64 values are canonical decimal digit sequences (no leading zero),  *)
(* which keeps the full 64-bit range.                                      *)
(***************************************************************************)
EXTENDS Integers, Sequences, FiniteSets, TLC

VARIABLES
    dir,        \* the migrations directory: file name -> file content
    logSet,     \* m.migrate.Log is non-nil (Migrator.SetLogger was called)
    clock,      \* time.Now(), in abstract seconds
    last,       \* the last MakeMigrate call: arguments, result, outcome
    probe,      \* inputs and output of a direct call of nextSeqVersion
    cmd,        \* the command invocation: name, flags, arguments
    pc,         \* position of the command's Run handler
    response,   \* the response read by fmt.Scanln, trimmed and lower-cased
    answered,   \* fmt.Scanln has returned
    calls,      \* the engine operations invoked so far, in order
    engineErr,  \* what the engine operation of the command returned
    log,        \* the lines printed and logged so far: <<level, message>>
    signals,    \* number of SIGINTs buffered in the `signals` channel
    listener,   \* position of the listener goroutine
    stopChan,   \* number of values buffered in migrate.GracefulStop
    stopSent,   \* number of graceful-stop requests sent by the listener
    sigints     \* number of SIGINTs delivered to the process so far

vars == <<dir, logSet, clock, last, probe, cmd, pc, response, answered, calls,
          engineErr, log, signals, listener, stopChan, stopSent, sigints>>

createVars == <<dir, logSet, clock, last>>
mainVars == <<cmd, pc, response, answered, calls, engineErr>>
listenerVars == <<signals, listener, stopChan, stopSent, sigints>>
cliVars == <<mainVars, log, listenerVars>>

---------------------------------------------------------------------------
(* Bounds of the model.                                                    *)

MaxFiles == 2       \* no file is created in a directory that holds this many
MaxSigints == 3     \* SIGINTs delivered to one command invocation

---------------------------------------------------------------------------
(* Strings.                                                                *)

\* The characters the model uses, in byte order (sort.Strings compares bytes).
AsciiOrder ==
    <<" ", "*", "+", "-", ".", "0", "1", "2", "3", "4", "5", "6", "7", "8", "9",
      ";", "N", "Y", "_", "a", "b", "d", "e", "l", "n", "o", "p", "q", "s", "t",
      "u", "w", "x", "y">>

Ord(c) == CHOOSE i \in 1..Len(AsciiOrder) : AsciiOrder[i] = c

Digits == <<"0", "1", "2", "3", "4", "5", "6", "7", "8", "9">>

IsDigit(c) == \E i \in 1..10 : Digits[i] = c

DigitVal(c) == (CHOOSE i \in 1..10 : Digits[i] = c) - 1

DigitChr(n) == Digits[n + 1]

\* Go's string comparison a < b.
RECURSIVE StrLess(_, _)
StrLess(a, b) ==
    IF b = <<>> THEN FALSE
    ELSE IF a = <<>> THEN TRUE
    ELSE IF Head(a) # Head(b) THEN Ord(Head(a)) < Ord(Head(b))
    ELSE StrLess(Tail(a), Tail(b))

\* strings.Index(s, c) for a one-character c: 0-based, -1 when absent.
StrIndex(s, c) ==
    IF \E i \in 1..Len(s) : s[i] = c
    THEN (CHOOSE i \in 1..Len(s) : s[i] = c /\ \A j \in 1..(i - 1) : s[j] # c) - 1
    ELSE -1

HasPrefix(s, p) == Len(s) >= Len(p) /\ SubSeq(s, 1, Len(p)) = p

HasSuffix(s, p) == Len(s) >= Len(p) /\ SubSeq(s, Len(s) - Len(p) + 1, Len(s)) = p

TrimPrefix(s, p) == IF HasPrefix(s, p) THEN SubSeq(s, Len(p) + 1, Len(s)) ELSE s

RECURSIVE Repeat(_, _)
Repeat(c, n) == IF n <= 0 THEN <<>> ELSE <<c>> \o Repeat(c, n - 1)

\* path.Match for patterns whose only metacharacter is `*` (no separator occurs
\* in a file name, so `*` matches any run of characters).
RECURSIVE Match(_, _)
Match(p, s) ==
    IF p = <<>> THEN s = <<>>
    ELSE IF Head(p) = "*"
         THEN Match(Tail(p), s) \/ (s # <<>> /\ Match(p, Tail(s)))
         ELSE s # <<>> /\ Head(s) = Head(p) /\ Match(Tail(p), Tail(s))

\* filepath.Glob(filepath.Join(migrationsFilePath, pattern)): the matching names
\* of the directory (Glob sorts them; GlobLast is the last of that order).
Glob(files, pattern) == {f \in files : Match(pattern, f)}

GlobLast(matches) == CHOOSE f \in matches : \A g \in matches : g = f \/ StrLess(g, f)

---------------------------------------------------------------------------
(* uint64 arithmetic on canonical decimal digit sequences.                 *)

MaxUint64 ==
    <<"1", "8", "4", "4", "6", "7", "4", "4", "0", "7", "3", "7", "0", "9", "5",
      "5", "1", "6", "1", "5">>

MaxInt64 ==
    <<"9", "2", "2", "3", "3", "7", "2", "0", "3", "6", "8", "5", "4", "7", "7",
      "5", "8", "0", "7">>

RECURSIVE StripZeros(_)
StripZeros(s) ==
    IF Len(s) > 1 /\ Head(s) = "0" THEN StripZeros(Tail(s)) ELSE s

\* a <= b for canonical digit sequences.
NumLeq(a, b) ==
    \/ Len(a) < Len(b)
    \/ Len(a) = Len(b) /\ (a = b \/ StrLess(a, b))

\* a + 1 in unbounded decimal arithmetic.
RECURSIVE DecInc(_)
DecInc(s) ==
    IF s = <<>> THEN <<"1">>
    ELSE IF s[Len(s)] = "9"
         THEN DecInc(SubSeq(s, 1, Len(s) - 1)) \o <<"0">>
         ELSE SubSeq(s, 1, Len(s) - 1) \o <<DigitChr(DigitVal(s[Len(s)]) + 1)>>

\* strconv.ParseUint(s, 10, 64): a syntax error on the empty string and on any
\* character that is not a digit (a sign included), a range error above 2^64-1.
ParseUint(s) ==
    IF s = <<>> \/ \E i \in 1..Len(s) : ~IsDigit(s[i])
    THEN [err |-> "ErrSyntax", val |-> <<"0">>]
    ELSE IF ~NumLeq(StripZeros(s), MaxUint64)
         THEN [err |-> "ErrRange", val |-> MaxUint64]
         ELSE [err |-> "none", val |-> StripZeros(s)]

\* nextSeq++ on a uint64: wraps to 0 at 2^64-1.
UintInc(v) == IF v = MaxUint64 THEN <<"0">> ELSE DecInc(v)

\* fmt.Sprintf("%0[2]*[1]d", n, width) for width > 0.
SprintfPad(n, width) == Repeat("0", width - Len(n)) \o n

---------------------------------------------------------------------------
(* Version namer.                                                          *)

SeqFinish(nextSeq, seqDigits) ==
    LET version == SprintfPad(nextSeq, seqDigits)
    IN  IF Len(version) > seqDigits
        THEN [version |-> <<>>, err |-> "next sequence number too large"]
        ELSE [version |-> version, err |-> "nil"]

\* nextSeqVersion over the directory listing `files` (names without directory
\* part, so filepath.Base leaves them as they are).
nextSeqVersion(files, ext, seqDigits) ==
    LET matches == Glob(files, <<"*">> \o ext)
    IN  IF seqDigits <= 0
        THEN [version |-> <<>>, err |-> "errInvalidSequenceWidth"]
        ELSE IF matches = {}
        THEN SeqFinish(<<"1">>, seqDigits)
        ELSE LET filename == GlobLast(matches)
                 idx == StrIndex(filename, "_")
             IN  IF idx < 1
                 THEN [version |-> <<>>, err |-> "malformed migration filename"]
                 ELSE LET parsed == ParseUint(SubSeq(filename, 1, idx))
                      IN  IF parsed.err # "none"
                          THEN [version |-> <<>>, err |-> parsed.err]
                          ELSE SeqFinish(UintInc(parsed.val), seqDigits)

defaultTimeFormat == "20060102150405"

\* time.LoadLocation / time.Local: the hour digits of the wall clock in the zone.
\* The local zone is one hour ahead of UTC; any other name is unknown.
LocationHour(timeZoneName) ==
    CASE timeZoneName = ""    -> <<"1", "2">>
      [] timeZoneName = "UTC" -> <<"1", "1">>
      [] OTHER                -> <<>>

\* strconv.FormatInt(now.Unix(), 10): ten digits, the same in every zone.
UnixString(now) ==
    <<"1", "7", "0", "0", "0", "0", "0", "0", "0">> \o <<DigitChr(now)>>

\* now.Format(layout) for the layouts the model uses: the 14-digit default
\* layout (date, hour of the zone, minutes and seconds) and the year alone.
TimeFormat(layout, hour, now) ==
    IF layout = defaultTimeFormat
    THEN <<"2", "0", "2", "4", "0", "1", "0", "1">> \o hour
             \o <<"0", "0", "0">> \o <<DigitChr(now)>>
    ELSE <<"2", "0", "2", "4">>

timeVersion(timeZoneName, format, now) ==
    LET hour == LocationHour(timeZoneName)
    IN  IF hour = <<>>
        THEN [version |-> <<>>, err |-> "unknown time zone"]
        ELSE [err |-> "nil",
              version |->
                CASE format = ""         -> TimeFormat(defaultTimeFormat, hour, now)
                  [] format = "unix"     -> UnixString(now)
                  [] format = "unixNano" -> UnixString(now) \o Repeat("0", 9)
                  [] OTHER               -> TimeFormat(format, hour, now)]

---------------------------------------------------------------------------
(* File emitter.                                                           *)

NormExt(ext) == IF ext = <<>> THEN <<".", "s", "q", "l">> ELSE <<".">> \o TrimPrefix(ext, <<".">>)

\* fmt.Sprintf("%s_%s.%s%s", version, name, direction, ext)
MigrationFileName(version, name, direction, ext) ==
    version \o <<"_">> \o name \o <<".">> \o direction \o ext

UpDirection == <<"u", "p">>

\* The direction written into the path of the down file.
DownDirection == <<"u", "p">>

NoPaths(err) == [up |-> <<>>, down |-> <<>>, version |-> <<>>, err |-> err]

\* upAndDownFilePath with a duplicate check that looks only for the files of the
\* same name: <version>_<name>*<ext>.
upAndDownFilePathSameName(files, now, timeZoneName, format, name, ext, seq, seqDigits) ==
    IF seq /\ format # defaultTimeFormat
    THEN NoPaths("errIncompatibleSeqAndFormat")
    ELSE LET e == NormExt(ext)
             v == IF seq THEN nextSeqVersion(files, e, seqDigits)
                         ELSE timeVersion(timeZoneName, format, now)
         IN  IF v.err # "nil"
             THEN NoPaths(v.err)
             ELSE IF Glob(files, v.version \o <<"_">> \o name \o <<"*">> \o e) # {}
             THEN [NoPaths("duplicate migration version") EXCEPT !.version = v.version]
             ELSE [up |-> MigrationFileName(v.version, name, UpDirection, e),
                   down |-> MigrationFileName(v.version, name, DownDirection, e),
                   version |-> v.version,
                   err |-> "nil"]

upAndDownFilePath(files, now, timeZoneName, format, name, ext, seq, seqDigits) ==
    IF seq /\ format # defaultTimeFormat
    THEN NoPaths("errIncompatibleSeqAndFormat")
    ELSE LET e == NormExt(ext)
             v == IF seq THEN nextSeqVersion(files, e, seqDigits)
                         ELSE timeVersion(timeZoneName, format, now)
         IN  IF v.err # "nil"
             THEN NoPaths(v.err)
             ELSE IF Glob(files, v.version \o <<"_", "*">> \o e) # {}
             THEN [NoPaths("duplicate migration version") EXCEPT !.version = v.version]
             ELSE [up |-> MigrationFileName(v.version, name, UpDirection, e),
                   down |-> MigrationFileName(v.version, name, DownDirection, e),
                   version |-> v.version,
                   err |-> "nil"]

\* result.MigrateSQLResult: table name -> statements, for the up and the down side.
EmptyMap == [t \in {} |-> <<>>]

EmptyResult == [up |-> EmptyMap, down |-> EmptyMap]

TwoTableResult ==
    [up   |-> ("users" :> <<"CREATE TABLE users", "CREATE INDEX users_idx">>)
                @@ ("posts" :> <<"CREATE TABLE posts">>),
     down |-> ("users" :> <<"DROP INDEX users_idx", "DROP TABLE users">>)]

Results == {EmptyResult, TwoTableResult}

\* migrateResult.Empty()
Empty(res) == DOMAIN res.up = {} /\ DOMAIN res.down = {}

\* The orders in which `range` may visit the keys of a Go map.
RangeOrders(m) ==
    {o \in [1..Cardinality(DOMAIN m) -> DOMAIN m] :
        \A i, j \in 1..Cardinality(DOMAIN m) : i # j => o[i] # o[j]}

\* The inner loop: fmt.Sprintf("%s;\n", sql) for each statement, in order.
RECURSIVE WriteStatements(_)
WriteStatements(sqlList) ==
    IF sqlList = <<>> THEN <<>>
    ELSE <<Head(sqlList), ";", "\n">> \o WriteStatements(Tail(sqlList))

\* The outer loop over a side of the result, visiting its tables in `order`:
\* the buffer as the sequence of strings written to it.
RECURSIVE WriteBuffer(_, _)
WriteBuffer(side, order) ==
    IF order = <<>> THEN <<>>
    ELSE <<"--", Head(order), "\n">> \o WriteStatements(side[Head(order)])
             \o WriteBuffer(side, Tail(order))

\* os.WriteFile(path, data, 0666): creates the file or replaces its content.
\* (The calls are taken to succeed: disk errors are not part of the model.)
WriteFile(d, path, data) ==
    [f \in DOMAIN d \cup {path} |-> IF f = path THEN data ELSE d[f]]

NoCall ==
    [via |-> "none", timeZoneName |-> "", format |-> "", name |-> <<>>, ext |-> <<>>,
     seq |-> FALSE, seqDigits |-> 0, funcErr |-> FALSE, result |-> EmptyResult,
     pre |-> EmptyMap, ret |-> "nil", logged |-> <<>>, version |-> <<>>]

\* Migrator.MakeMigrate. `funcErr` and `res` are what m.migrateFunc returns.
MakeMigrate(via, funcErr, res, timeZoneName, format, name, ext, seq, seqDigits) ==
    LET call == [NoCall EXCEPT !.via = via, !.timeZoneName = timeZoneName,
                               !.format = format, !.name = name, !.ext = ext,
                               !.seq = seq, !.seqDigits = seqDigits,
                               !.funcErr = funcErr, !.result = res, !.pre = dir]
        paths == upAndDownFilePath(DOMAIN dir, clock, timeZoneName, format, name,
                                   ext, seq, seqDigits)
    IN  IF funcErr
        THEN /\ last' = [call EXCEPT !.ret = "migrateFunc error"]
             /\ dir' = dir
        ELSE IF Empty(res)
        THEN /\ last' = IF logSet
                        THEN [call EXCEPT !.logged = <<"no change">>]
                        ELSE [call EXCEPT !.ret = "panic: nil Log"]
             /\ dir' = dir
        ELSE IF paths.err # "nil"
        THEN /\ last' = [call EXCEPT !.ret = paths.err, !.version = paths.version]
             /\ dir' = dir
        ELSE \E upOrder \in RangeOrders(res.up), downOrder \in RangeOrders(res.down) :
               LET upBuffer == WriteBuffer(res.up, upOrder)
                   downBuffer == WriteBuffer(res.down, downOrder)
               IN  /\ last' = [call EXCEPT !.version = paths.version]
                   /\ dir' = WriteFile(WriteFile(dir, paths.up, upBuffer),
                                       paths.down, downBuffer)

---------------------------------------------------------------------------
(* The inputs of the create operations.                                    *)

Names == {<<"a">>, <<"b">>}

Exts == {<<>>, <<"t", "x", "t">>, <<".", "t", "x", "t">>}

TimeZones == {"", "UTC", "Mars/Olympus"}

Formats == {"", defaultTimeFormat, "unix", "unixNano", "2006"}

SeqDigitsValues == {-1, 0, 2, 6}

Times == {0, 1}

\* The flag defaults of the create command.
DefaultExt == <<>>
DefaultSeq == FALSE
DefaultDigits == 6
DefaultFormat == ""
DefaultTz == ""

Request(timeZoneName, format, name, ext, seq, seqDigits) ==
    [timeZoneName |-> timeZoneName, format |-> format, name |-> name, ext |-> ext,
     seq |-> seq, seqDigits |-> seqDigits]

\* The argument lists MakeMigrate is called with: every zone and format in time
\* mode, every name and extension, and every format and width in sequential mode.
Requests ==
    {Request(tz, f, <<"a">>, <<>>, FALSE, DefaultDigits) :
        tz \in TimeZones, f \in {"", "unix"}}
    \cup {Request("", f, <<"a">>, <<>>, FALSE, DefaultDigits) : f \in Formats}
    \cup {Request("", "", n, e, FALSE, DefaultDigits) : n \in Names, e \in Exts}
    \cup {Request("", f, <<"a">>, <<>>, TRUE, w) :
            f \in {"", defaultTimeFormat, "unix"}, w \in SeqDigitsValues}
    \cup {Request("", defaultTimeFormat, n, e, TRUE, DefaultDigits) :
            n \in Names, e \in Exts}

FileNine == <<"9", "_", "a", ".", "u", "p", ".", "s", "q", "l">>
FileTen == <<"1", "0", "_", "b", ".", "u", "p", ".", "s", "q", "l">>

\* The directories a run may start from: an empty one, and one that holds the
\* sequential migrations 9 and 10.
InitialDirs == {EmptyMap, (FileNine :> <<>>) @@ (FileTen :> <<>>)}

NoProbe == [files |-> {}, ext |-> <<>>, seqDigits |-> 0, done |-> FALSE,
            version |-> <<>>, err |-> "nil"]

NoCommand == [name |-> "none", args |-> <<>>, all |-> FALSE, force |-> FALSE,
              verbose |-> FALSE]

CliIdle ==
    /\ cmd = NoCommand
    /\ pc = "idle"
    /\ response = <<>>
    /\ answered = FALSE
    /\ calls = <<>>
    /\ engineErr = "pending"
    /\ log = <<>>
    /\ signals = 0
    /\ listener = "none"
    /\ stopChan = 0
    /\ stopSent = 0
    /\ sigints = 0

\* The state after New: m.migrate.Log is not set.
Init ==
    /\ dir \in InitialDirs
    /\ logSet = FALSE
    /\ clock \in Times
    /\ last = NoCall
    /\ probe = NoProbe
    /\ CliIdle

\* Migrator.SetLogger
SetLogger ==
    /\ last.via = "none"
    /\ logSet' = TRUE
    /\ UNCHANGED <<dir, clock, last, probe, cliVars>>

\* Time passes between two calls.
Tick ==
    /\ last.via = "none"
    /\ clock + 1 \in Times
    /\ clock' = clock + 1
    /\ UNCHANGED <<dir, logSet, last, probe, cliVars>>

\* A direct call of Migrator.MakeMigrate.
CallMakeMigrate ==
    /\ last.via = "none"
    /\ \E funcErr \in BOOLEAN, res \in Results, r \in Requests :
         /\ funcErr => res = EmptyResult
         /\ MakeMigrate("api", funcErr, res, r.timeZoneName, r.format, r.name, r.ext,
                        r.seq, r.seqDigits)
    /\ Cardinality(DOMAIN dir') <= MaxFiles
    /\ UNCHANGED <<logSet, clock, probe, cliVars>>

\* The Run handler of the create command: flags that are not given keep their
\* defaults; every error of MakeMigrate is fatal.
CreateCommand ==
    /\ last.via = "none"
    /\ \E args \in {<<>>, <<<<"a">>>>}, res \in Results,
          seqFlag \in {DefaultSeq, TRUE},
          formatFlag \in {DefaultFormat, defaultTimeFormat, "unix"} :
         IF Len(args) = 0
         THEN /\ last' = [NoCall EXCEPT !.via = "cli", !.pre = dir,
                                        !.ret = "please specify name"]
              /\ dir' = dir
         ELSE MakeMigrate("cli", FALSE, res, DefaultTz, formatFlag, args[1],
                          DefaultExt, seqFlag, DefaultDigits)
    /\ Cardinality(DOMAIN dir') <= MaxFiles
    /\ UNCHANGED <<logSet, clock, probe, cliVars>>

\* The caller takes the outcome of the call and goes on.
Return ==
    /\ last.via # "none"
    /\ last' = NoCall
    /\ UNCHANGED <<dir, logSet, clock, probe, cliVars>>

Next == SetLogger \/ Tick \/ CallMakeMigrate \/ CreateCommand \/ Return

Spec == Init /\ [][Next]_vars
---------------------------------------------------------------------------
(* Properties of the create operations.                                    *)

\* MakeMigrate was called (the create command did not stop for a missing name).
Called == last.via # "none" /\ last.ret # "please specify name"

\* ... and the migrate function returned a non-empty result.
NonEmptyCall == Called /\ ~last.funcErr /\ ~Empty(last.result)

ExpectedUpFile ==
    last.version \o <<"_">> \o last.name \o <<".", "u", "p">> \o NormExt(last.ext)

ExpectedDownFile ==
    last.version \o <<"_">> \o last.name \o <<".", "d", "o", "w", "n">> \o NormExt(last.ext)

IsSerialized(content, side) ==
    \E order \in RangeOrders(side) : content = WriteBuffer(side, order)

\* C1: whenever MakeMigrate is called with a non-empty result and returns without
\* error, exactly two distinct files have been added to the directory:
\* <version>_<name>.up.<ext> holding the serialized up side and
\* <version>_<name>.down.<ext> holding the serialized down side.
C1_TwoFilesAdded ==
    (NonEmptyCall /\ last.ret = "nil") =>
        /\ ExpectedUpFile # ExpectedDownFile
        /\ DOMAIN dir \ DOMAIN last.pre = {ExpectedUpFile, ExpectedDownFile}
        /\ IsSerialized(dir[ExpectedUpFile], last.result.up)
        /\ IsSerialized(dir[ExpectedDownFile], last.result.down)

\* Some file of `files` is named <version>_..., with the extension ext.
VersionTaken(files, version, ext) ==
    \E f \in files :
        /\ Len(f) >= Len(version) + 1 + Len(ext)
        /\ HasPrefix(f, version \o <<"_">>)
        /\ HasSuffix(f, ext)

\* C2: if a file matching <computed version>_*<ext> already exists when
\* MakeMigrate has computed the version, MakeMigrate returns the 'duplicate
\* migration version' error and the directory (files and contents) is unchanged.
C2_DuplicateDetection ==
    (NonEmptyCall /\ last.version # <<>>
       /\ VersionTaken(DOMAIN last.pre, last.version, NormExt(last.ext))) =>
        /\ last.ret = "duplicate migration version"
        /\ dir = last.pre

\* A duplicate was detected in time mode: a second create at the same instant.
C2_Witness ==
    /\ NonEmptyCall
    /\ last.ret = "duplicate migration version"
    /\ ~last.seq
    /\ last.version # <<>>
    /\ \E f \in DOMAIN last.pre : HasPrefix(f, last.version \o <<"_">>)
    /\ dir = last.pre

\* The version of a migration file: its name up to the first `_`.
FileVersion(f) == SubSeq(f, 1, StrIndex(f, "_"))

\* f and g are the up and the down file of one migration.
SameMigration(f, g) ==
    \E n \in 1..Len(f) :
        /\ SubSeq(f, 1, n) = SubSeq(g, 1, n)
        /\ \E rest \in {<<>>} \cup {SubSeq(f, k, Len(f)) : k \in 1..Len(f)} :
             {f, g} = {SubSeq(f, 1, n) \o <<".", "u", "p">> \o rest,
                       SubSeq(f, 1, n) \o <<".", "d", "o", "w", "n">> \o rest}

\* C3: no two migrations in the directory share the same version string, after
\* any sequence of create operations from a directory where none do.
C3_VersionsUnique ==
    \A f, g \in DOMAIN dir :
        (f # g /\ StrIndex(f, "_") >= 1 /\ StrIndex(g, "_") >= 1
           /\ FileVersion(f) = FileVersion(g)) => SameMigration(f, g)

\* C5: MakeMigrate returns the 'seq and format options are mutually exclusive'
\* error exactly when sequential mode is requested together with a format other
\* than the default of the -format flag (the empty string).
C5_MutuallyExclusive ==
    NonEmptyCall =>
        (last.ret = "errIncompatibleSeqAndFormat" <=> (last.seq /\ last.format # DefaultFormat))

\* C6: when the migrate function returns an empty result, MakeMigrate reports
\* 'no change', returns no error, computes no version and leaves the directory
\* unchanged, whatever the other arguments are.
C6_EmptyResultNoChange ==
    (Called /\ ~last.funcErr /\ Empty(last.result)) =>
        /\ last.ret = "nil"
        /\ last.logged = <<"no change">>
        /\ last.version = <<>>
        /\ dir = last.pre

\* The lines of a file: its content cut after every "\n".
RECURSIVE FileLines(_, _)
FileLines(content, line) ==
    IF content = <<>> THEN (IF line = <<>> THEN <<>> ELSE <<line>>)
    ELSE IF Head(content) = "\n" THEN <<line>> \o FileLines(Tail(content), <<>>)
    ELSE FileLines(Tail(content), Append(line, Head(content)))

IsHeader(line) == Len(line) = 2 /\ line[1] = "--"

\* `content` is, for every table of `side`, one header line --<table> followed
\* by the table's statements in their order, each as <sql>; on a line of its
\* own, and nothing else.
WellFormed(content, side) ==
    LET lines == FileLines(content, <<>>)
        headers == {i \in 1..Len(lines) : IsHeader(lines[i])}
        blockEnd(h) == IF \E i \in headers : i > h
                       THEN (CHOOSE i \in headers : i > h /\ \A j \in headers : j > h => i <= j) - 1
                       ELSE Len(lines)
    IN  /\ \A i \in headers : lines[i][2] \in DOMAIN side
        /\ \A i \in 1..Len(lines) : i \notin headers => \E h \in headers : h < i
        /\ \A t \in DOMAIN side :
             /\ Cardinality({i \in headers : lines[i][2] = t}) = 1
             /\ LET h == CHOOSE i \in headers : lines[i][2] = t
                IN  SubSeq(lines, h + 1, blockEnd(h))
                      = [k \in 1..Len(side[t]) |-> <<side[t][k], ";">>]

\* The side of the result a migration file is for, by the direction in its name.
SideOf(f) == IF f = ExpectedDownFile THEN last.result.down ELSE last.result.up

\* C9: each file written by a successful MakeMigrate consists, for every table of
\* the corresponding side of the result, of exactly one header line --<table>
\* followed by that table's statements in order, each as <sql>; on its own line;
\* every statement of the side appears once under its table, and nothing else.
C9_FileContent ==
    (NonEmptyCall /\ last.ret = "nil") =>
        \A f \in DOMAIN dir \ DOMAIN last.pre : WellFormed(dir[f], SideOf(f))

\* What the two buffers of a successful call hold is a well-formed rendering of
\* one side of the result (of the down side, under either name).
BuffersWellFormed ==
    (NonEmptyCall /\ last.ret = "nil") =>
        \A f \in DOMAIN dir \ DOMAIN last.pre :
            WellFormed(dir[f], last.result.up) \/ WellFormed(dir[f], last.result.down)

C6_WithLogger == logSet => C6_EmptyResultNoChange

---------------------------------------------------------------------------
(* nextSeqVersion on its own: directory listings drawn from a pool of file  *)
(* names, both extensions, and widths around the cases of the function.     *)

FileSeqOne == <<"0", "0", "0", "0", "0", "1", "_", "a", ".", "u", "p", ".", "s", "q", "l">>
FileMax == MaxUint64 \o <<"_", "x", ".", "u", "p", ".", "s", "q", "l">>
FileOverRange == DecInc(MaxUint64) \o <<"_", "y", ".", "u", "p", ".", "s", "q", "l">>
FileNoUnderscore == <<"a", "b", ".", "s", "q", "l">>
FileNoPrefix == <<"_", "x", ".", "s", "q", "l">>
FileNotNumber == <<"1", "x", "_", "a", ".", "u", "p", ".", "s", "q", "l">>
FileTxt == <<"9", "9", "_", "b", ".", "u", "p", ".", "t", "x", "t">>

FilePool == {FileNine, FileTen, FileSeqOne, FileMax, FileOverRange, FileNoUnderscore,
             FileNoPrefix, FileNotNumber, FileTxt}

ProbeWidths == {-1, 0, 1, 2, 6, 20}

InitSeq ==
    /\ probe \in {[NoProbe EXCEPT !.files = fs, !.ext = e, !.seqDigits = w] :
                    fs \in SUBSET FilePool,
                    e \in {<<".", "s", "q", "l">>, <<".", "t", "x", "t">>},
                    w \in ProbeWidths}
    /\ dir = EmptyMap
    /\ logSet = FALSE
    /\ clock = 0
    /\ last = NoCall
    /\ CliIdle

\* A call of nextSeqVersion(migrationsFilePath, ext, seqDigits).
CallNextSeqVersion ==
    /\ ~probe.done
    /\ LET r == nextSeqVersion(probe.files, probe.ext, probe.seqDigits)
       IN  probe' = [probe EXCEPT !.done = TRUE, !.version = r.version, !.err = r.err]
    /\ UNCHANGED <<createVars, cliVars>>

NextSeq == CallNextSeqVersion

SeqSpec == InitSeq /\ [][NextSeq]_vars

\* The files of the listing that match *<ext>, and the last of them.
ProbeMatches == {f \in probe.files : HasSuffix(f, probe.ext)}

ProbeLast == CHOOSE f \in ProbeMatches : \A g \in ProbeMatches : ~StrLess(f, g)

\* Its prefix up to the first `_` (empty when there is none).
ProbePrefix == SubSeq(ProbeLast, 1, StrIndex(ProbeLast, "_"))

\* The prefix is missing or is no number a uint64 holds.
ProbePrefixBad ==
    \/ ProbePrefix = <<>>
    \/ \E i \in 1..Len(ProbePrefix) : ~IsDigit(ProbePrefix[i])
    \/ ~NumLeq(StripZeros(ProbePrefix), MaxUint64)

\* V+1, as an integer (1 when no file matches).
ProbeSuccessor ==
    IF ProbeMatches = {} THEN <<"1">> ELSE DecInc(StripZeros(ProbePrefix))

\* C4: for W > 0 nextSeqVersion returns V+1 zero-padded to exactly W characters
\* (1 zero-padded when no file matches), V being the number before the first `_`
\* of the lexicographically last file matching *<ext>; it returns an error and no
\* version when W <= 0, when the prefix is missing or not a number, or when V+1
\* needs more than W digits.
C4_NextSeqVersion ==
    probe.done =>
        IF \/ probe.seqDigits <= 0
           \/ ProbeMatches # {} /\ ProbePrefixBad
           \/ Len(ProbeSuccessor) > probe.seqDigits
        THEN probe.err # "nil" /\ probe.version = <<>>
        ELSE /\ probe.err = "nil"
             /\ Len(probe.version) = probe.seqDigits
             /\ StripZeros(probe.version) = ProbeSuccessor

\* The same, for every listing whose last version is not the largest uint64.
C4_BelowMaxUint64 ==
    (ProbeMatches # {} /\ ~ProbePrefixBad /\ StripZeros(ProbePrefix) = MaxUint64)
        \/ C4_NextSeqVersion

---------------------------------------------------------------------------
(* Command surface: signed integers, the engine operations, the handlers.  *)

\* a - b for canonical digit sequences with a >= b.
RECURSIVE SubDigits(_, _, _)
SubDigits(a, b, borrow) ==
    IF a = <<>> THEN <<>>
    ELSE LET x == DigitVal(a[Len(a)]) - DigitVal(b[Len(b)]) - borrow
         IN  SubDigits(SubSeq(a, 1, Len(a) - 1), SubSeq(b, 1, Len(b) - 1),
                       IF x < 0 THEN 1 ELSE 0)
               \o <<DigitChr(IF x < 0 THEN x + 10 ELSE x)>>

DecSub(a, b) == StripZeros(SubDigits(a, Repeat("0", Len(a) - Len(b)) \o b, 0))

\* A Go int (64 bits): sign and magnitude.
IntValue(neg, mag) == [neg |-> neg, mag |-> mag]

\* int(n) for a uint64 n: values above 2^63-1 come out negative.
IntOfUint(n) ==
    IF NumLeq(n, MaxInt64) THEN IntValue(FALSE, n)
    ELSE IntValue(TRUE, DecSub(DecInc(MaxUint64), n))

IntLeqZero(i) == i.neg \/ i.mag = <<"0">>

IntNegate(i) == IF i.mag = <<"0">> THEN i ELSE IntValue(~i.neg, i.mag)

NoArg == IntValue(FALSE, <<>>)

EngineCall(op, arg) == [op |-> op, arg |-> arg]

\* Migrator.Up(n)
MigratorUp(n) ==
    IF IntLeqZero(n) THEN EngineCall("Up", NoArg) ELSE EngineCall("Steps", n)

\* Migrator.Down(n)
MigratorDown(n) ==
    IF IntLeqZero(n) THEN EngineCall("Down", NoArg) ELSE EngineCall("Steps", IntNegate(n))

\* migrate.ErrNoChange
ErrNoChange == "no change"

EngineErrors == {"nil", ErrNoChange, "database locked"}

numDownMigrationsFromArgs(applyAll, args) ==
    IF applyAll
    THEN IF Len(args) > 0
         THEN [num |-> IntValue(FALSE, <<"0">>), needsConfirm |-> FALSE,
               err |-> "-all cannot be used with other arguments"]
         ELSE [num |-> IntValue(TRUE, <<"1">>), needsConfirm |-> FALSE, err |-> "nil"]
    ELSE CASE Len(args) = 0 ->
                [num |-> IntValue(TRUE, <<"1">>), needsConfirm |-> TRUE, err |-> "nil"]
           [] Len(args) = 1 ->
                LET parsed == ParseUint(args[1])
                IN  IF parsed.err # "none"
                    THEN [num |-> IntValue(FALSE, <<"0">>), needsConfirm |-> FALSE,
                          err |-> "can't read limit argument N"]
                    ELSE [num |-> IntOfUint(parsed.val), needsConfirm |-> FALSE,
                          err |-> "nil"]
           [] OTHER ->
                [num |-> IntValue(FALSE, <<"0">>), needsConfirm |-> FALSE,
                 err |-> "too many arguments"]

\* What a handler does up to the point where it blocks or ends: the lines it
\* logs, the engine operation it invokes (at most one), and where it goes.
Fatal(msg) == [next |-> "fatal", log |-> <<<<"fatal", msg>>>>, calls |-> <<>>]

Prompt(msg) == [next |-> "prompt", log |-> <<<<"stdout", msg>>>>, calls |-> <<>>]

Invoke(call) == [next |-> "engine", log |-> <<>>, calls |-> <<call>>]

InfoThen(msg, step) == [step EXCEPT !.log = <<<<"info", msg>>>> \o @]

\* A Run handler from its start to the prompt, the engine call or a fatal exit.
\* (In force, the test v < -1 on the parsed uint64 never holds and is left out;
\* the verbosity, prefetch and lock-timeout settings of setupMigrator change
\* nothing the handlers read.)
RunStart(c) ==
    CASE c.name = "goto" ->
           IF Len(c.args) = 0 THEN Fatal("please specify version argument V")
           ELSE LET parsed == ParseUint(c.args[1])
                IN  IF parsed.err # "none" THEN Fatal("can't read version argument V")
                    ELSE Invoke(EngineCall("Migrate", IntValue(FALSE, parsed.val)))
      [] c.name = "up" ->
           IF Len(c.args) > 0
           THEN LET parsed == ParseUint(c.args[1])
                IN  IF parsed.err # "none" THEN Fatal("can't read limit argument N")
                    ELSE Invoke(MigratorUp(IntOfUint(parsed.val)))
           ELSE Invoke(MigratorUp(IntValue(TRUE, <<"1">>)))
      [] c.name = "down" ->
           LET r == numDownMigrationsFromArgs(c.all, c.args)
           IN  IF r.err # "nil" THEN Fatal(r.err)
               ELSE IF r.needsConfirm
               THEN Prompt("Are you sure you want to apply all down migrations? [y/N]")
               ELSE Invoke(MigratorDown(r.num))
      [] c.name = "drop" ->
           IF ~c.force
           THEN Prompt("Are you sure you want to drop the entire database schema? [y/N]")
           ELSE Invoke(EngineCall("Drop", NoArg))
      [] c.name = "force" ->
           IF Len(c.args) = 0 THEN Fatal("please specify version argument V")
           ELSE LET parsed == ParseUint(c.args[1])
                IN  IF parsed.err # "none" THEN Fatal("can't read version argument V")
                    ELSE Invoke(EngineCall("Force", IntOfUint(parsed.val)))
      [] OTHER -> Invoke(EngineCall("Version", NoArg))

\* fmt.Scanln(&response): the first space-delimited word of the input line.
RECURSIVE SkipSpaces(_)
SkipSpaces(s) == IF s # <<>> /\ Head(s) = " " THEN SkipSpaces(Tail(s)) ELSE s

RECURSIVE TakeWord(_)
TakeWord(s) ==
    IF s = <<>> \/ Head(s) = " " THEN <<>> ELSE <<Head(s)>> \o TakeWord(Tail(s))

Scanln(line) == TakeWord(SkipSpaces(line))

\* strings.TrimSpace
RECURSIVE TrimRight(_)
TrimRight(s) ==
    IF s # <<>> /\ s[Len(s)] = " " THEN TrimRight(SubSeq(s, 1, Len(s) - 1)) ELSE s

TrimSpace(s) == TrimRight(SkipSpaces(s))

\* strings.ToLower
LowerChar(c) == CASE c = "Y" -> "y" [] c = "N" -> "n" [] OTHER -> c

ToLower(s) == [i \in 1..Len(s) |-> LowerChar(s[i])]

\* A confirmation that takes everything but "n" for a yes.
ConfirmedUnlessNo(resp) == resp # <<"n">>

\* The test of the confirmation: response == "y".
Confirmed(resp) == resp = <<"y">>

\* A handler from the answer of the prompt to the engine call or a fatal exit.
RunAnswered(c, resp) ==
    IF c.name = "down"
    THEN IF Confirmed(resp)
         THEN InfoThen("Applying all down migrations",
                       Invoke(MigratorDown(numDownMigrationsFromArgs(c.all, c.args).num)))
         ELSE Fatal("Not applying all down migrations")
    ELSE IF Confirmed(resp)
         THEN InfoThen("Dropping the entire database schema",
                       Invoke(EngineCall("Drop", NoArg)))
         ELSE Fatal("Aborted dropping the entire database schema")

\* The end of a handler that returns: the verbose timing line, then the deferred
\* closeMigrator.
Finish(c, lines) ==
    [next |-> "done",
     log |-> lines \o (IF c.verbose /\ c.name # "version"
                       THEN <<<<"info", "Finished After">>>> ELSE <<>>),
     calls |-> <<EngineCall("Close", NoArg)>>]

\* Every command tolerating the sentinel.
ToleratesNoChangeAlways(name) == TRUE

\* The commands that log migrate.ErrNoChange and go on.
ToleratesNoChange(name) == name \in {"goto", "up", "down"}

\* A handler from the return of the engine operation to its end.
RunReturned(c, err) ==
    IF err = "nil"
    THEN Finish(c, IF c.name = "version" THEN <<<<"printf", "version">>>> ELSE <<>>)
    ELSE IF ToleratesNoChange(c.name) /\ err = ErrNoChange
    THEN Finish(c, <<<<"info", err>>>>)
    ELSE Fatal(err)

---------------------------------------------------------------------------
(* One command invocation and the interrupt listener.                      *)

Two == <<"2">>
TwoPow63 == DecInc(MaxInt64)

ArgLists == {<<>>, <<Two>>, <<<<"0">>>>, <<<<"x">>>>, <<Two, Two>>, <<TwoPow63>>}

InputLines ==
    {<<"y">>, <<"Y">>, <<"n">>, <<>>, <<"y", "e", "s">>, <<" ", "y">>, <<"y", " ", "n">>}

Command(name, args, all, force, verbose) ==
    [name |-> name, args |-> args, all |-> all, force |-> force, verbose |-> verbose]

Commands ==
    {Command(n, a, FALSE, FALSE, v) : n \in {"goto", "up", "force"}, a \in ArgLists,
                                      v \in BOOLEAN}
    \cup {Command("down", a, all, FALSE, FALSE) : a \in ArgLists, all \in BOOLEAN}
    \cup {Command("drop", <<>>, FALSE, f, FALSE) : f \in BOOLEAN}
    \cup {Command("version", <<>>, FALSE, FALSE, v) : v \in BOOLEAN}

\* Capacity of the `signals` channel.
SignalsCap == 1

\* The process runs and setupMigrator has been called.
Alive == pc \in {"prompt", "engine", "done"}

\* A listener that goes on ranging over `signals` after the send.
ListenerKeepsListening == "waiting"

\* The goroutine's position after GracefulStop <- true: it returns.
ListenerAfterSend == "done"

InitCli ==
    /\ dir = EmptyMap
    /\ logSet = FALSE
    /\ clock = 0
    /\ last = NoCall
    /\ probe = NoProbe
    /\ CliIdle

\* The main thread takes `step`.
Take(step) ==
    /\ pc' = step.next
    /\ log' = log \o step.log
    /\ calls' = calls \o step.calls

\* A command starts: setupMigrator (which starts the listener), then the handler
\* up to its prompt, its engine call or a fatal exit.
StartCommand ==
    /\ pc = "idle"
    /\ \E c \in Commands :
         /\ cmd' = c
         /\ Take(RunStart(c))
    /\ listener' = "waiting"
    /\ UNCHANGED <<response, answered, engineErr, signals, stopChan, stopSent, sigints>>
    /\ UNCHANGED <<createVars, probe>>

\* The user answers the prompt.
Answer ==
    /\ pc = "prompt"
    /\ \E line \in InputLines :
         LET resp == ToLower(TrimSpace(Scanln(line)))
         IN  /\ response' = resp
             /\ Take(RunAnswered(cmd, resp))
    /\ answered' = TRUE
    /\ UNCHANGED <<cmd, engineErr, listenerVars, createVars, probe>>

\* The engine operation returns.
EngineReturn ==
    /\ pc = "engine"
    /\ \E err \in EngineErrors :
         /\ engineErr' = err
         /\ Take(RunReturned(cmd, err))
    /\ UNCHANGED <<cmd, response, answered, listenerVars, createVars, probe>>

\* The running engine operation takes the stop request from GracefulStop.
EngineStop ==
    /\ pc = "engine"
    /\ stopChan > 0
    /\ stopChan' = stopChan - 1
    /\ UNCHANGED <<mainVars, log, signals, listener, stopSent, sigints, createVars, probe>>

\* The process ends after the handler has returned.
ProcessExit ==
    /\ pc = "done"
    /\ pc' = "exited"
    /\ UNCHANGED <<cmd, response, answered, calls, engineErr, log, listenerVars,
                   createVars, probe>>

\* A SIGINT arrives: signal.Notify puts it in the channel unless the channel is full.
Sigint ==
    /\ Alive
    /\ sigints < MaxSigints
    /\ sigints' = sigints + 1
    /\ signals' = IF signals < SignalsCap THEN signals + 1 ELSE signals
    /\ UNCHANGED <<mainVars, log, listener, stopChan, stopSent, createVars, probe>>

\* The listener receives from `signals` and logs.
ListenerReceive ==
    /\ Alive
    /\ listener = "waiting"
    /\ signals > 0
    /\ signals' = signals - 1
    /\ log' = Append(log, <<"info", "Stopping after this running migration ...">>)
    /\ listener' = "sending"
    /\ UNCHANGED <<mainVars, stopChan, stopSent, sigints, createVars, probe>>

\* The listener sends on GracefulStop (a channel that buffers one value) and returns.
ListenerSend ==
    /\ Alive
    /\ listener = "sending"
    /\ stopChan < 1
    /\ stopChan' = stopChan + 1
    /\ stopSent' = stopSent + 1
    /\ listener' = ListenerAfterSend
    /\ UNCHANGED <<mainVars, log, signals, sigints, createVars, probe>>

NextCli ==
    \/ StartCommand
    \/ Answer
    \/ EngineReturn
    \/ EngineStop
    \/ ProcessExit
    \/ Sigint
    \/ ListenerReceive
    \/ ListenerSend

CliSpec == InitCli /\ [][NextCli]_vars

\* The Go scheduler runs a goroutine that can run.
FairCliSpec == CliSpec /\ WF_vars(ListenerReceive) /\ WF_vars(ListenerSend)

---------------------------------------------------------------------------
(* Properties of the command surface.                                      *)

\* The command asks for confirmation: drop without -f, down with no count
\* argument and without -all.
NeedsConfirmation ==
    \/ cmd.name = "drop" /\ ~cmd.force
    \/ cmd.name = "down" /\ cmd.args = <<>> /\ ~cmd.all

\* The engine was asked to drop or to migrate down.
DestructiveCalled == \E i \in 1..Len(calls) : calls[i].op \in {"Drop", "Down", "Steps"}

\* C7: in drop without -f and in down with no count and without -all, the
\* engine's Drop / Down is never invoked before the prompt has been answered, and
\* only if the trimmed, lower-cased response equals y; any other response (the
\* empty one included) ends the command fatally with no engine call.
C7_ConfirmationGates ==
    NeedsConfirmation =>
        /\ DestructiveCalled => (answered /\ response = <<"y">>)
        /\ (answered /\ response # <<"y">>) => (pc = "fatal" /\ calls = <<>>)

\* down was confirmed and the engine applies all down migrations.
C7_Witness ==
    /\ cmd.name = "down"
    /\ NeedsConfirmation
    /\ answered
    /\ response = <<"y">>
    /\ \E i \in 1..Len(calls) : calls[i].op = "Down"

\* drop was refused with an empty answer.
C7_Refused ==
    /\ cmd.name = "drop"
    /\ NeedsConfirmation
    /\ answered
    /\ response = <<>>
    /\ pc = "fatal"

Logged(level, msg) == \E i \in 1..Len(log) : log[i] = <<level, msg>>

LoggedFatal == \E i \in 1..Len(log) : log[i][1] = "fatal"

\* C8: in goto, up and down an engine result equal to the 'no change' sentinel is
\* logged informationally and the command completes normally, every other
\* non-nil engine error is fatal; in drop and force every non-nil error is fatal.
C8_NoChangeSentinel ==
    engineErr # "pending" =>
        /\ (cmd.name \in {"goto", "up", "down"} /\ engineErr = ErrNoChange) =>
               (pc \in {"done", "exited"} /\ Logged("info", ErrNoChange) /\ ~LoggedFatal)
        /\ (cmd.name \in {"goto", "up", "down"} /\ engineErr \notin {"nil", ErrNoChange}) =>
               (pc = "fatal" /\ LoggedFatal)
        /\ (cmd.name \in {"drop", "force"} /\ engineErr # "nil") =>
               (pc = "fatal" /\ LoggedFatal)

\* up found nothing to apply and completed.
C8_Witness ==
    /\ cmd.name = "up"
    /\ engineErr = ErrNoChange
    /\ pc = "done"
    /\ Logged("info", ErrNoChange)

\* drop got the sentinel from the engine and ended fatally.
C8_DropFatal == cmd.name = "drop" /\ engineErr = ErrNoChange /\ pc = "fatal"

\* The command invocation is over: a fatal exit, or the process has exited.
Ended == pc \in {"fatal", "exited"}

\* C10 as stated: a SIGINT received after setupMigrator causes exactly one
\* graceful-stop request (so one has been sent by the time the invocation is
\* over), and never more than one.
C10_SigintAlwaysStops ==
    /\ stopSent <= 1
    /\ (Ended /\ sigints >= 1) => stopSent = 1

\* C10, amended: the first SIGINT received after setupMigrator leads to exactly
\* one graceful-stop request unless the process ends first; the listener has
\* terminated once the request is sent, so at most one request is ever sent
\* however many SIGINTs follow, a request is sent only after a SIGINT, and a step
\* of the listener changes nothing of the main thread.
C10_StopRequest ==
    /\ [](stopSent <= 1)
    /\ [](stopSent = 1 => (listener = "done" /\ sigints >= 1))
    /\ [](stopSent = 0 => stopChan = 0)
    /\ [][(listener # "none" /\ listener' # listener) => UNCHANGED mainVars]_vars
    /\ (sigints >= 1) ~> (stopSent = 1 \/ ~Alive)

\* One request was sent although more SIGINTs arrived.
C10_Witness ==
    /\ stopSent = 1
    /\ listener = "done"
    /\ sigints >= 2

\* down was given exactly one argument that parses as a count, without -all.
ExplicitCount ==
    /\ cmd.name = "down"
    /\ ~cmd.all
    /\ Len(cmd.args) = 1
    /\ ParseUint(cmd.args[1]).err = "none"

\* The argument list of down is one the handler rejects: -all with arguments, a
\* count that is not a number, or more than one argument.
BadDownArguments ==
    /\ cmd.name = "down"
    /\ \/ cmd.all /\ Len(cmd.args) > 0
       \/ Len(cmd.args) > 1
       \/ Len(cmd.args) = 1 /\ ParseUint(cmd.args[1]).err # "none"

\* The engine was asked to apply all down migrations.
DownAllCalled == \E i \in 1..Len(calls) : calls[i].op = "Down"

\* The engine was asked to step down exactly the count given on the command line.
SteppedDownByCount ==
    /\ Len(calls) >= 1
    /\ calls[1].op = "Steps"
    /\ calls[1].arg.mag = ParseUint(cmd.args[1]).val
    /\ calls[1].arg.neg = (ParseUint(cmd.args[1]).val # <<"0">>)

\* C11: in down, the engine's apply-all-down operation is reached only if -all
\* was given with no other arguments or the user answered y to the prompt; with
\* an explicit count N the engine is asked to step down exactly N migrations and
\* never to apply all down migrations (N = 0 included); -all with arguments, a
\* non-numeric count, or more than one argument ends fatally with no engine call.
C11_DownArguments ==
    cmd.name = "down" =>
        /\ DownAllCalled =>
               \/ cmd.all /\ cmd.args = <<>>
               \/ answered /\ response = <<"y">>
        /\ ExplicitCount => (SteppedDownByCount /\ ~DownAllCalled)
        /\ BadDownArguments => (pc = "fatal" /\ calls = <<>>)

\* The count is one that int(n) keeps positive: 1 .. 2^63-1.
PositiveCount ==
    /\ ExplicitCount
    /\ ParseUint(cmd.args[1]).val # <<"0">>
    /\ NumLeq(ParseUint(cmd.args[1]).val, MaxInt64)

\* The same, for every argument list but a count that Migrator.Down takes for
\* "all": 0, or a count above 2^63-1.
C11_PositiveCounts == (ExplicitCount /\ ~PositiveCount) \/ C11_DownArguments

\* `down 0`: all down migrations are applied, with no -all and no prompt.
C11_ZeroAppliesAll ==
    /\ ExplicitCount
    /\ cmd.args = <<<<"0">>>>
    /\ ~answered
    /\ DownAllCalled

\* `down 2` steps down two migrations.
C11_StepsDownTwo ==
    /\ ExplicitCount
    /\ cmd.args = <<Two>>
    /\ calls = <<EngineCall("Steps", IntValue(TRUE, Two))>>

\* `down -all 2` ends fatally before the engine is called.
C11_AllWithCountFatal ==
    /\ BadDownArguments
    /\ cmd.all
    /\ pc = "fatal"
    /\ Logged("fatal", "-all cannot be used with other arguments")
====
